---- MODULE Spec2Model ----
(***************************************************************************)
(* Model of knight_paths.py: KnightPathFinder.bfs_paths (the all-shortest- *)
(* paths search over the knight's move graph of the 8x8 board) and the two *)
(* static notation converters alg_to_coord / coord_to_alg.                 *)
(*                                                                         *)
(* A cell is a pair <<row, col>>.  A path is a sequence of cells.  A text  *)
(* is a sequence of one-character strings.                                 *)
(***************************************************************************)
EXTENDS Integers, Sequences, FiniteSets, TLC

VARIABLES
    pc,            \* position of the bfs_paths() call: "idle", "loop", "done"
    start,         \* self.start
    end,           \* self.end
    queue,         \* deque of paths
    visited,       \* set of expanded cells
    paths,         \* list of collected paths
    min_length,    \* None or the length of the first path that reached end
    path,          \* the path dequeued by the latest loop iteration
    conv_pc,       \* position of the converter round trip
    alg_notation,  \* argument of alg_to_coord
    coord_ret,     \* value returned by alg_to_coord
    coord,         \* argument of coord_to_alg
    alg_ret        \* value returned by coord_to_alg

vars == <<pc, start, end, queue, visited, paths, min_length, path,
          conv_pc, alg_notation, coord_ret, coord, alg_ret>>

bfsVars == <<pc, start, end, queue, visited, paths, min_length, path>>
convVars == <<conv_pc, alg_notation, coord_ret, coord, alg_ret>>

----------------------------------------------------------------------------
(* KnightPathFinder.__init__ *)

board_size == 8

knight_moves_short ==
    << <<2, 1>>, <<1, 1>>, <<-1, 2>>, <<-2, 1>>,
       <<-2, -1>>, <<-1, -2>>, <<1, -2>>, <<2, -1>> >>

knight_moves ==
    << <<2, 1>>, <<1, 2>>, <<-1, 2>>, <<-2, 1>>,
       <<-2, -1>>, <<-1, -2>>, <<1, -2>>, <<2, -1>> >>

None == 0

NoCell == <<>>

Cells == (0 .. board_size - 1) \X (0 .. board_size - 1)

is_valid_inclusive(position) ==
    /\ 0 <= position[1] /\ position[1] <= board_size
    /\ 0 <= position[2] /\ position[2] <= board_size

is_valid_positive(position) ==
    /\ 0 < position[1] /\ position[1] < board_size
    /\ 0 <= position[2] /\ position[2] < board_size

is_valid(position) ==
    /\ 0 <= position[1] /\ position[1] < board_size
    /\ 0 <= position[2] /\ position[2] < board_size

----------------------------------------------------------------------------
(* KnightPathFinder.bfs_paths *)

\* path[-1]
Last(p) == p[Len(p)]

\* len(path) == min_length
IsMinLengthOrMore(p, ml) == Len(p) >= ml

IsMinLength(p, ml) == Len(p) = ml

\* current in visited
InVisitedNever(current, vis) == FALSE

InVisited(current, vis) == current \in vis

\* queue.append(...) for the successors of one expansion, in move order
appendleft(q, new) == new \o q

append(q, new) == q \o new

\* the paths appended by the for-loop over knight_moves
Successors(p) ==
    LET current == Last(p)
        cand == [i \in 1 .. Len(knight_moves) |->
                    p \o << <<current[1] + knight_moves[i][1],
                              current[2] + knight_moves[i][2]>> >>]
    IN  SelectSeq(cand, LAMBDA np : is_valid(Last(np)))

InitConvIdle ==
    /\ conv_pc = "idle"
    /\ alg_notation = <<>>
    /\ coord_ret = NoCell
    /\ coord = NoCell
    /\ alg_ret = <<>>

\* state on entry to the while loop, for any valid start and end
Init ==
    /\ start \in Cells
    /\ end \in Cells
    /\ pc = "loop"
    /\ queue = << <<start>> >>
    /\ visited = {}
    /\ paths = <<>>
    /\ min_length = None
    /\ path = <<>>
    /\ InitConvIdle

\* one loop iteration whose dequeued path ends at self.end
ReachEnd ==
    /\ pc = "loop"
    /\ queue # <<>>
    /\ Last(Head(queue)) = end
    /\ path' = Head(queue)
    /\ min_length' = IF min_length = None THEN Len(Head(queue)) ELSE min_length
    /\ paths' = IF IsMinLength(Head(queue), min_length')
                THEN Append(paths, Head(queue))
                ELSE paths
    /\ queue' = Tail(queue)
    /\ UNCHANGED <<pc, start, end, visited>>
    /\ UNCHANGED convVars

\* one loop iteration whose dequeued path ends at an already expanded cell
SkipVisited ==
    /\ pc = "loop"
    /\ queue # <<>>
    /\ Last(Head(queue)) # end
    /\ InVisited(Last(Head(queue)), visited)
    /\ path' = Head(queue)
    /\ queue' = Tail(queue)
    /\ UNCHANGED <<pc, start, end, visited, paths, min_length>>
    /\ UNCHANGED convVars

\* one loop iteration that expands the last cell of the dequeued path
Expand ==
    /\ pc = "loop"
    /\ queue # <<>>
    /\ Last(Head(queue)) # end
    /\ ~InVisited(Last(Head(queue)), visited)
    /\ path' = Head(queue)
    /\ visited' = visited \cup {Last(Head(queue))}
    /\ queue' = append(Tail(queue), Successors(Head(queue)))
    /\ UNCHANGED <<pc, start, end, paths, min_length>>
    /\ UNCHANGED convVars

\* the while condition fails: return paths
Return ==
    /\ pc = "loop"
    /\ queue = <<>>
    /\ pc' = "done"
    /\ UNCHANGED <<start, end, queue, visited, paths, min_length, path>>
    /\ UNCHANGED convVars

Next == ReachEnd \/ SkipVisited \/ Expand \/ Return

Spec == Init /\ [][Next]_vars

\* the same search with start drawn from the corner triangle row <= col <=
\* MaxStartCol of the board
MaxStartCol == 2

InitCorner ==
    /\ Init
    /\ start[1] <= start[2]
    /\ start[2] <= MaxStartCol

SpecCorner == InitCorner /\ [][Next]_vars

\* the loop is sequential code: an enabled iteration is eventually run
FairSpecCorner == SpecCorner /\ WF_vars(Next)

----------------------------------------------------------------------------
(* KnightPathFinder.alg_to_coord and KnightPathFinder.coord_to_alg *)

MaxLen == 3
MaxCoord == 8

files == <<"a", "b", "c", "d", "e", "f", "g", "h">>
ranks == <<"1", "2", "3", "4", "5", "6", "7", "8">>

UpperLetters == <<"A", "B", "C", "D", "E", "F", "G", "H", "I">>
LowerLetters == <<"a", "b", "c", "d", "e", "f", "g", "h", "i">>
DecDigits == <<"0", "1", "2", "3", "4", "5", "6", "7", "8", "9">>

Range(f) == {f[i] : i \in DOMAIN f}

\* the characters input texts are drawn from
Chars == Range(UpperLetters) \cup Range(LowerLetters) \cup Range(DecDigits)
            \cup {" ", "\n"}

Texts == UNION {[1 .. n -> Chars] : n \in 0 .. MaxLen}

CoordInputs == (-1 .. MaxCoord) \X (-1 .. MaxCoord)

\* str.lower() of one character
lower(ch) ==
    IF \E i \in DOMAIN UpperLetters : UpperLetters[i] = ch
    THEN LowerLetters[CHOOSE i \in DOMAIN UpperLetters : UpperLetters[i] = ch]
    ELSE ch

\* str.index(): zero-based position of the first occurrence
index(s, ch) == (CHOOSE i \in DOMAIN s : s[i] = ch /\ \A j \in 1 .. i - 1 : s[j] # ch) - 1

\* int() of one decimal digit
int(ch) == (CHOOSE i \in DOMAIN DecDigits : DecDigits[i] = ch) - 1

\* str() of a non-negative integer
RECURSIVE str(_)
str(n) == IF n < 10 THEN <<DecDigits[n + 1]>>
          ELSE str(n \div 10) \o <<DecDigits[(n % 10) + 1]>>

\* the character class [a-hA-H]
FileClass(ch) == \E i \in 1 .. 8 : ch = LowerLetters[i] \/ ch = UpperLetters[i]

\* the character class [1-8]
RankClass(ch) == \E i \in 2 .. 9 : ch = DecDigits[i]

\* '$' without re.MULTILINE, at 1-based position pos of s: the end of the
\* text, or just before a newline that is the last character of the text
DollarAt(s, pos) ==
    \/ pos = Len(s) + 1
    \/ pos = Len(s) /\ s[pos] = "\n"

\* re.match(r'^([a-hA-H])([1-8])$', alg_notation) is not None
re_match(s) ==
    /\ Len(s) >= 2
    /\ FileClass(s[1])
    /\ RankClass(s[2])
    /\ DollarAt(s, 3)

\* value returned by alg_to_coord when the pattern matches
alg_to_coord(s) ==
    LET file_char == s[1]
        rank_char == s[2]
        col == index(files, lower(file_char))
        row == int(rank_char) - 1
    IN  <<row, col>>

\* the range test of coord_to_alg
coord_in_range(c) == 0 <= c[1] /\ c[1] < 8 /\ 0 <= c[2] /\ c[2] < 8

\* value returned by coord_to_alg when the coordinate is in range
coord_to_alg(c) == <<files[c[2] + 1]>> \o str(c[1] + 1)

InitBfsIdle ==
    /\ pc = "idle"
    /\ start = NoCell
    /\ end = NoCell
    /\ queue = <<>>
    /\ visited = {}
    /\ paths = <<>>
    /\ min_length = None
    /\ path = <<>>

\* a text about to be parsed and formatted back, or a coordinate about to be
\* formatted and parsed back
InitConv ==
    /\ InitBfsIdle
    /\ coord_ret = NoCell
    /\ alg_ret = <<>>
    /\ \/ /\ conv_pc = "parse_first"
          /\ alg_notation \in Texts
          /\ coord = NoCell
       \/ /\ conv_pc = "format_first"
          /\ coord \in CoordInputs
          /\ alg_notation = <<>>

\* alg_to_coord returns (row, col)
AlgToCoordReturn ==
    /\ conv_pc \in {"parse_first", "parse_second"}
    /\ re_match(alg_notation)
    /\ coord_ret' = alg_to_coord(alg_notation)
    /\ IF conv_pc = "parse_first"
       THEN conv_pc' = "format_second" /\ coord' = coord_ret'
       ELSE conv_pc' = "done_cell" /\ coord' = coord
    /\ UNCHANGED <<alg_notation, alg_ret>>
    /\ UNCHANGED bfsVars

\* alg_to_coord raises ValueError
AlgToCoordRaise ==
    /\ conv_pc \in {"parse_first", "parse_second"}
    /\ ~re_match(alg_notation)
    /\ conv_pc' = "ValueError"
    /\ UNCHANGED <<alg_notation, coord_ret, coord, alg_ret>>
    /\ UNCHANGED bfsVars

\* coord_to_alg returns the notation
CoordToAlgReturn ==
    /\ conv_pc \in {"format_first", "format_second"}
    /\ coord_in_range(coord)
    /\ alg_ret' = coord_to_alg(coord)
    /\ IF conv_pc = "format_first"
       THEN conv_pc' = "parse_second" /\ alg_notation' = alg_ret'
       ELSE conv_pc' = "done_text" /\ alg_notation' = alg_notation
    /\ UNCHANGED <<coord_ret, coord>>
    /\ UNCHANGED bfsVars

\* coord_to_alg raises ValueError
CoordToAlgRaise ==
    /\ conv_pc \in {"format_first", "format_second"}
    /\ ~coord_in_range(coord)
    /\ conv_pc' = "ValueError"
    /\ UNCHANGED <<alg_notation, coord_ret, coord, alg_ret>>
    /\ UNCHANGED bfsVars

NextConv == AlgToCoordReturn \/ AlgToCoordRaise \/ CoordToAlgReturn \/ CoordToAlgRaise

SpecConv == InitConv /\ [][NextConv]_vars

----------------------------------------------------------------------------
(* Reference definitions used by the properties: the knight graph of the   *)
(* board and its distances, computed without the search under test.        *)

Abs(n) == IF n < 0 THEN -n ELSE n

\* d is one of the 8 knight displacements
IsKnightOffset(d) == Abs(d[1]) * Abs(d[2]) = 2

\* the 64 squares
Board == (0 .. 7) \X (0 .. 7)

RECURSIVE NeighbourTable(_)
NeighbourTable(S) ==
    IF S = {} THEN <<>>
    ELSE LET c == CHOOSE x \in S : TRUE
             near == {d \in Board : IsKnightOffset(<<d[1] - c[1], d[2] - c[2]>>)}
         IN  (c :> {d : d \in near}) @@ NeighbourTable(S \ {c})

\* RefNeighbour[c]: the squares one knight move away from c
RefNeighbour == NeighbourTable(Board)

RefNeighbours(c) == RefNeighbour[c]

\* the pairs of squares one knight move apart
KnightEdges == UNION {{<<c, d>> : d \in RefNeighbour[c]} : c \in Board}

RECURSIVE RefBFS(_, _, _)
RefBFS(dist, frontier, k) ==
    IF frontier = {} THEN dist
    ELSE LET nxt == UNION {RefNeighbours(c) : c \in frontier} \ DOMAIN dist
         IN  RefBFS(dist @@ [c \in nxt |-> k + 1], nxt, k + 1)

RECURSIVE RefTable(_)
RefTable(S) ==
    IF S = {} THEN <<>>
    ELSE LET s == CHOOSE x \in S : TRUE
         IN  (s :> RefBFS((s :> 0), {s}, 0)) @@ RefTable(S \ {s})

\* RefDist[s][c]: the number of knight moves from s to c (single-source BFS)
RefDist == RefTable(Board)

\* all knight walks from s to e that use exactly RefDist[s][e] moves
RECURSIVE MinimalWalks(_, _)
MinimalWalks(s, e) ==
    IF s = e THEN {<<e>>}
    ELSE UNION {{<<s>> \o w : w \in MinimalWalks(n, e)} :
                n \in {m \in RefNeighbours(s) : RefDist[m][e] = RefDist[s][e] - 1}}

Returned == {paths[i] : i \in DOMAIN paths}

\* a walk of knight moves on the board that begins at start
WellFormed(p) ==
    /\ Len(p) >= 1
    /\ p[1] = start
    /\ p \in Seq(Board)
    /\ \A i \in 1 .. Len(p) - 1 : <<p[i], p[i + 1]>> \in KnightEdges

----------------------------------------------------------------------------
(* Properties *)

\* C1: when bfs_paths() returns, the set of returned paths equals the set of
\* ALL knight walks from start to end of the shortest knight distance.
C1_CompleteAndExact ==
    pc = "done" => Returned = MinimalWalks(start, end)

\* C2: all returned paths have the same number of cells, d + 1, where d is
\* the knight distance from start to end given by the reference BFS.
C2_LengthIsDistance ==
    \A i \in DOMAIN paths : Len(paths[i]) = RefDist[start][end] + 1

C2_Witness ==
    /\ pc = "done"
    /\ Len(paths) >= 2
    /\ RefDist[start][end] >= 3

\* C3 (as claimed): from (0,0) to (1,2) the search returns at least one path
\* and every returned path has exactly 4 cells (3 moves).
C3_FourCells ==
    (pc = "done" /\ start = <<0, 0>> /\ end = <<1, 2>>)
        => (Len(paths) >= 1 /\ \A i \in DOMAIN paths : Len(paths[i]) = 4)

\* C3 (amended): from (0,0) to (1,2) the minimum distance is 1 move: the
\* search returns at least one path and every returned path has exactly 2
\* cells.
C3_TwoCells ==
    (pc = "done" /\ start = <<0, 0>> /\ end = <<1, 2>>)
        => (Len(paths) >= 1 /\ \A i \in DOMAIN paths : Len(paths[i]) = 2)

C3_Witness ==
    /\ pc = "done"
    /\ start = <<0, 0>>
    /\ end = <<1, 2>>
    /\ paths = << << <<0, 0>>, <<1, 2>> >> >>

\* C4: for every valid start and end, bfs_paths() eventually terminates with
\* an empty queue, and the returned collection then holds at least one path.
C4_TerminatesNonEmpty ==
    <>(pc = "done" /\ queue = <<>> /\ Len(paths) >= 1)

C4_Witness ==
    /\ pc = "done"
    /\ queue = <<>>
    /\ start # end
    /\ Len(paths) >= 1

\* exactly two characters: a letter a..h or A..H, then a digit 1..8
ExactNotation(s) ==
    /\ Len(s) = 2
    /\ s[1] \in {"a", "b", "c", "d", "e", "f", "g", "h",
                 "A", "B", "C", "D", "E", "F", "G", "H"}
    /\ s[2] \in {"1", "2", "3", "4", "5", "6", "7", "8"}

\* C5: alg_to_coord returns a cell only for a text of exactly two characters,
\* letter a..h/A..H then digit 1..8; every other text raises the error.
C5_StrictNotation ==
    /\ conv_pc \in {"format_second", "done_text"} => ExactNotation(alg_notation)
    /\ (conv_pc = "ValueError" /\ coord = NoCell) => ~ExactNotation(alg_notation)

\* C6: the converters are inverses: parsing the notation of a cell gives the
\* cell back, and formatting the cell parsed from an accepted text gives the
\* text lowercased.
C6_RoundTrip ==
    /\ conv_pc = "done_cell" => coord_ret = coord
    /\ conv_pc = "done_text" =>
          alg_ret = [i \in DOMAIN alg_notation |-> lower(alg_notation[i])]

\* C7: every path in the queue or in the result list begins at start, stays
\* on the board and moves by knight offsets; every result path ends at end.
C7_PathsWellFormed ==
    /\ \A i \in DOMAIN queue : WellFormed(queue[i])
    /\ \A i \in DOMAIN paths : WellFormed(paths[i]) /\ Last(paths[i]) = end

C7_Witness ==
    /\ Len(paths) >= 1
    /\ Len(queue) >= 1
    /\ Len(queue[Len(queue)]) >= 4

\* C8: BFS layering: the queue is sorted by path length, its first and last
\* entries differ in length by at most 1, and the path dequeued last is no
\* longer than the front of the queue (hence than any queued path).
C8_Layering ==
    /\ \A i \in 1 .. Len(queue) - 1 : Len(queue[i]) <= Len(queue[i + 1])
    /\ queue # <<>> => Len(queue[Len(queue)]) <= Len(queue[1]) + 1
    /\ queue # <<>> => Len(path) <= Len(queue[1])

C8_Witness ==
    /\ Len(queue) >= 2
    /\ Len(queue[Len(queue)]) = Len(queue[1]) + 1
    /\ Len(path) = Len(queue[1])

\* the stop condition of the early-terminating variant
EarlyStop ==
    /\ min_length # None
    /\ queue # <<>>
    /\ Len(Head(queue)) > min_length

\* C9: once min_length is fixed and the front of the queue is longer than
\* min_length, no later step changes the result, and the condition persists
\* until the queue is empty: stopping there returns the same list.
C9_EarlyStopEquivalent ==
    [][EarlyStop => (paths' = paths /\ (queue' = <<>> \/ EarlyStop'))]_vars

C9_Witness ==
    /\ EarlyStop
    /\ Last(Head(queue)) = end
    /\ Len(paths) >= 1

\* the cell before the last one of a returned path
Penultimate(p) == p[Len(p) - 1]

C10_State ==
    /\ end \notin visited
    /\ \A i, j \in DOMAIN paths :
          (i # j /\ Len(paths[i]) >= 2 /\ Len(paths[j]) >= 2)
              => Penultimate(paths[i]) # Penultimate(paths[j])
    /\ end \in Board =>
          /\ Len(paths) <= Cardinality(RefNeighbours(end))
          /\ Cardinality(RefNeighbours(end)) <= 8

C10_Step ==
    queue' # queue =>
        LET current == Last(Head(queue))
        IN  /\ current = end => (visited' = visited /\ queue' = Tail(queue))
            /\ current # end =>
                  /\ current \in visited'
                  /\ queue' # Tail(queue) => current \notin visited

====
